---- MODULE Spec2Model ----
(***************************************************************************)
(* Model of src/Gld_Dash.py: the static methods of TechnicalAnalysis,      *)
(* DataManager and ChartManager, and the refresh loop Dashboard.run.       *)
(*                                                                         *)
(* Numbers.  The program computes in float64.  The model computes in exact *)
(* rational arithmetic: a number is a pair <<n, d>> in lowest terms with   *)
(* d > 0, and NaN (pandas' "undefined") is the pair <<0, 0>>.  Statements  *)
(* about equality of sums are therefore statements "up to floating         *)
(* tolerance" about the program.                                           *)
(*                                                                         *)
(* Frames.  A pandas DataFrame is a function from column names to columns, *)
(* every column a sequence with one entry per bar (row).                   *)
(***************************************************************************)
EXTENDS Integers, Sequences, FiniteSets, TLC

VARIABLES
    pc,        \* Dashboard.run: the statement the loop is at
    data,      \* Dashboard.run: the local variable `data` of the cycle
    applied,   \* Dashboard.run: the pipeline stages run so far in this cycle
    output,    \* Dashboard.run: what the cycle has put on the page so far
    fn,        \* a direct call: the function called
    arg,       \* a direct call: its arguments
    called,    \* a direct call: whether it has returned
    ret        \* a direct call: what it returned

vars == <<pc, data, applied, output, fn, arg, called, ret>>

---------------------------------------------------------------------------
(* Exact rational arithmetic with NaN.                                     *)

NaN == <<0, 0>>

IsNaN(x) == x[2] = 0

Abs(n) == IF n < 0 THEN -n ELSE n

RECURSIVE GCD(_, _)
GCD(a, b) == IF b = 0 THEN a ELSE GCD(b, a % b)

\* n/d in lowest terms, d # 0.
Norm(n, d) ==
    LET g == GCD(Abs(n), Abs(d))
        s == IF d < 0 THEN -1 ELSE 1
    IN  <<(s * n) \div g, (s * d) \div g>>

R(n) == <<n, 1>>

\* The operations reduce by common factors before they multiply, to keep
\* the intermediate integers small.
RAdd(x, y) ==
    IF IsNaN(x) \/ IsNaN(y) THEN NaN
    ELSE LET g == GCD(x[2], y[2])
         IN  Norm(x[1] * (y[2] \div g) + y[1] * (x[2] \div g),
                  (x[2] \div g) * y[2])

RNeg(x) == <<-x[1], x[2]>>

RSub(x, y) == RAdd(x, RNeg(y))

RMul(x, y) ==
    IF IsNaN(x) \/ IsNaN(y) THEN NaN
    ELSE LET g1 == GCD(Abs(x[1]), y[2])
             g2 == GCD(Abs(y[1]), x[2])
         IN  Norm((x[1] \div g1) * (y[1] \div g2),
                  (x[2] \div g2) * (y[2] \div g1))

\* float division: 0/0 is NaN.  A nonzero numerator over zero (an infinity)
\* does not arise for the non-negative volumes the model feeds in: a zero
\* cumulative or rolling volume forces every summand, and so the numerator,
\* to be zero.  It is mapped to NaN to keep the operator total.
RDiv(x, y) == IF IsNaN(x) \/ IsNaN(y) \/ y[1] = 0 THEN NaN
              ELSE RMul(x, Norm(y[2], y[1]))

\* float comparisons: any comparison with NaN is False.
RLt(x, y) == ~IsNaN(x) /\ ~IsNaN(y) /\ x[1] * y[2] < y[1] * x[2]
RGt(x, y) == RLt(y, x)
RGe(x, y) == ~IsNaN(x) /\ ~IsNaN(y) /\ x[1] * y[2] >= y[1] * x[2]
RLe(x, y) == RGe(y, x)

Half == <<1, 2>>

---------------------------------------------------------------------------
(* pandas / numpy primitives used by the program.                          *)

\* len(df): the number of rows.
Rows(df) == IF DOMAIN df = {} THEN 0
            ELSE Len(df[CHOOSE c \in DOMAIN df : TRUE])

\* df.empty: no columns or no rows.
empty(df) == Rows(df) = 0

\* df[c] = col
SetCol(df, c, col) ==
    [k \in DOMAIN df \cup {c} |-> IF k = c THEN col ELSE df[k]]

\* A column given entry by entry, as a sequence.  (The concatenation makes
\* TLC build the sequence once instead of re-evaluating an entry at every
\* use.)
Column(f) == f \o <<>>

\* s[lo] + ... + s[hi] over the entries that are not NaN, halving the
\* range to keep the evaluation shallow; the empty sum is 0.
RECURSIVE SumRange(_, _, _)
SumRange(s, lo, hi) ==
    IF lo > hi THEN R(0)
    ELSE IF lo = hi THEN (IF IsNaN(s[lo]) THEN R(0) ELSE s[lo])
    ELSE LET mid == (lo + hi) \div 2
         IN  RAdd(SumRange(s, lo, mid), SumRange(s, mid + 1, hi))

\* Series.sum(): NaN entries are skipped (skipna=True); the empty sum is 0.
sum(s) == SumRange(s, 1, Len(s))

\* Series.cumsum(): the running total; a NaN entry stays NaN and is skipped.
cumsum(s) ==
    Column([i \in 1..Len(s) |-> IF IsNaN(s[i]) THEN NaN ELSE SumRange(s, 1, i)])

\* A plausible slip: rolling(window=w, center=True), a window that reaches
\* (w - 1) \div 2 entries ahead.
rolling_mean_centered(s, w) ==
    LET ahead == (w - 1) \div 2
        lo(i) == i + ahead - w + 1
        hi(i) == i + ahead
    IN  Column([i \in 1..Len(s) |->
                  IF lo(i) < 1 \/ hi(i) > Len(s) THEN NaN
                  ELSE RDiv(SumRange(s, lo(i), hi(i)), R(w))])

\* Series.rolling(window=w).mean(): min_periods defaults to w, so the
\* first w-1 entries are NaN; entry i is the mean of the trailing w
\* entries, NaN if one of them is NaN.
rolling_mean(s, w) ==
    Column([i \in 1..Len(s) |->
              IF i < w \/ \E j \in (i - w + 1)..i : IsNaN(s[j]) THEN NaN
              ELSE RDiv(SumRange(s, i - w + 1, i), R(w))])

---------------------------------------------------------------------------
(* DataManager.calculate_buy_sell_volume (lines 107-143).                  *)

\* window=20 of the volume moving average (line 117).
VOLUME_MA_WINDOW == 20

\* A plausible slip: the whole-series totals instead of the running ones.
vwap_total(vp, volume) ==
    Column([i \in 1..Len(vp) |-> RDiv(sum(vp), sum(volume))])

\* Line 114: VP.cumsum() / Volume.cumsum().
vwap_column(vp, volume) ==
    LET cvp == cumsum(vp)
        cv  == cumsum(volume)
    IN  Column([i \in 1..Len(vp) |-> RDiv(cvp[i], cv[i])])

\* Lines 112-118: Typical_Price, VP, VWAP, Price_Change, Volume_MA and
\* Relative_Volume, each written into the frame in the program's order.
volume_columns(df) ==
    LET n  == Rows(df)
        tp == Column([i \in 1..n |->
                        RDiv(RAdd(RAdd(df["High"][i], df["Low"][i]),
                                  df["Close"][i]), R(3))])
        vp == Column([i \in 1..n |-> RMul(tp[i], df["Volume"][i])])
        vwap == vwap_column(vp, df["Volume"])
        pchg == Column([i \in 1..n |-> RSub(df["Close"][i], df["Open"][i])])
        vma  == rolling_mean(df["Volume"], VOLUME_MA_WINDOW)
        rv   == Column([i \in 1..n |-> RDiv(df["Volume"][i], vma[i])])
    IN  SetCol(SetCol(SetCol(SetCol(SetCol(SetCol(df,
            "Typical_Price", tp), "VP", vp), "VWAP", vwap),
            "Price_Change", pchg), "Volume_MA", vma), "Relative_Volume", rv)

\* Lines 121-126: the per-bar Buy_Volume before normalization.
\* np.where(cond, Volume * Relative_Volume, Volume * 0.5).
buy_split(d) ==
    Column([i \in 1..Rows(d) |->
              IF /\ RGt(d["Close"][i], d["VWAP"][i])
                 /\ RGt(d["Price_Change"][i], R(0))
              THEN RMul(d["Volume"][i], d["Relative_Volume"][i])
              ELSE RMul(d["Volume"][i], Half)])

\* A plausible slip: the complement of the buy share.
sell_split_complement(d) ==
    LET buy == buy_split(d)
    IN  Column([i \in 1..Rows(d) |-> RSub(d["Volume"][i], buy[i])])

\* Lines 128-133: the per-bar Sell_Volume before normalization.
sell_split(d) ==
    Column([i \in 1..Rows(d) |->
              IF /\ RLt(d["Close"][i], d["VWAP"][i])
                 /\ RLt(d["Price_Change"][i], R(0))
              THEN RMul(d["Volume"][i], d["Relative_Volume"][i])
              ELSE RMul(d["Volume"][i], Half)])

\* Lines 112-133: the frame as it is just before "# Normalize volumes".
split_volume(df) ==
    LET d == volume_columns(df)
    IN  SetCol(SetCol(d, "Buy_Volume", buy_split(d)),
               "Sell_Volume", sell_split(d))

\* Line 137: Buy_Volume.sum() + Sell_Volume.sum().
total_calculated(d) == RAdd(sum(d["Buy_Volume"]), sum(d["Sell_Volume"]))

\* A plausible slip: only Buy_Volume is rescaled.
normalize_volume_buy_only(d) ==
    LET total_volume == sum(d["Volume"])
        tc           == total_calculated(d)
    IN  IF RGt(tc, R(0))
        THEN SetCol(d, "Buy_Volume",
                    Column([i \in 1..Rows(d) |->
                              RMul(RDiv(d["Buy_Volume"][i], tc),
                                   total_volume)]))
        ELSE d

\* Lines 136-141: both columns rescaled by total_volume / total_calculated,
\* only if total_calculated > 0.
normalize_volume(d) ==
    LET total_volume == sum(d["Volume"])
        tc           == total_calculated(d)
        scale(col)   == Column([i \in 1..Len(col) |->
                                  RMul(RDiv(col[i], tc), total_volume)])
    IN  IF RGt(tc, R(0))
        THEN SetCol(SetCol(d, "Buy_Volume", scale(d["Buy_Volume"])),
                    "Sell_Volume", scale(d["Sell_Volume"]))
        ELSE d

calculate_buy_sell_volume(df) ==
    IF empty(df) THEN df
    ELSE normalize_volume(split_volume(df))

---------------------------------------------------------------------------
(* TechnicalAnalysis.find_support_resistance (lines 45-59).  Bars are      *)
(* numbered from 1 here and from 0 in the program: the program's index i   *)
(* is the model's i + 1.  A pandas Series is a function from bar numbers   *)
(* to values.                                                              *)

\* The largest (smallest) of a non-empty set of numbers.
RMax(S) == CHOOSE x \in S : \A y \in S : RGe(x, y)
RMin(S) == CHOOSE x \in S : \A y \in S : RLe(x, y)

\* A plausible slip: rolling(window=w, min_periods=1), defined from the
\* first bar on.
rolling_max_min_periods_1(s, w) ==
    Column([i \in 1..Len(s) |->
              RMax({ s[j] : j \in (IF i < w THEN 1 ELSE i - w + 1)..i })])

\* Series.rolling(window=w).max(): min_periods defaults to w, so the first
\* w-1 entries are NaN.
rolling_max(s, w) ==
    Column([i \in 1..Len(s) |->
              IF i < w THEN NaN ELSE RMax({ s[j] : j \in (i - w + 1)..i })])

\* Series.rolling(window=w).min().
rolling_min(s, w) ==
    Column([i \in 1..Len(s) |->
              IF i < w THEN NaN ELSE RMin({ s[j] : j \in (i - w + 1)..i })])

\* ndarray.take(..., mode='clip'): an index off either end reads the end.
Clip(k, n) == IF k < 1 THEN 1 ELSE IF k > n THEN n ELSE k

\* A plausible slip: np.greater, the strict comparator.
argrelextrema_greater(x, order) ==
    { i \in 1..Len(x) :
        \A shift \in 1..order :
            /\ RGt(x[i], x[Clip(i + shift, Len(x))])
            /\ RGt(x[i], x[Clip(i - shift, Len(x))]) }

\* scipy.signal.argrelextrema(x, np.greater_equal, order=order)[0]: the
\* indices i with x[i] >= x[i + shift] and x[i] >= x[i - shift] for every
\* shift in 1..order, the shifted indices clipped to the array.
argrelextrema_greater_equal(x, order) ==
    { i \in 1..Len(x) :
        \A shift \in 1..order :
            /\ RGe(x[i], x[Clip(i + shift, Len(x))])
            /\ RGe(x[i], x[Clip(i - shift, Len(x))]) }

\* scipy.signal.argrelextrema(x, np.less_equal, order=order)[0].
argrelextrema_less_equal(x, order) ==
    { i \in 1..Len(x) :
        \A shift \in 1..order :
            /\ RLe(x[i], x[Clip(i + shift, Len(x))])
            /\ RLe(x[i], x[Clip(i - shift, Len(x))]) }

\* Series.iloc[positions]: the entries at the positions, under their labels.
iloc(s, positions) == [i \in positions |-> s[i]]

\* find_support_resistance(data, window) with the module's SCIPY_AVAILABLE
\* as a parameter; returns (support_levels, resistance_levels).
find_support_resistance(df, window, scipy_available) ==
    IF ~scipy_available
    THEN [support    |-> rolling_min(df["Low"], window),
          resistance |-> rolling_max(df["High"], window)]
    ELSE LET local_max == argrelextrema_greater_equal(df["High"], window)
             local_min == argrelextrema_less_equal(df["Low"], window)
         IN  [support    |-> iloc(df["Low"], local_min),
              resistance |-> iloc(df["High"], local_max)]

---------------------------------------------------------------------------
(* TechnicalAnalysis.calculate_volume_profile (lines 62-71).               *)

\* np.linspace(start, stop, num): num points, the first start and (for
\* num > 1) the last stop, num - 1 equal steps apart.
linspace(start, stop, num) ==
    Column([k \in 1..num |->
              IF num = 1 THEN start
              ELSE RAdd(start, RMul(R(k - 1),
                                    RDiv(RSub(stop, start), R(num - 1))))])

\* np.digitize(x, bins) for non-decreasing bins: the number of bins <= x.
digitize(x, bins) == Cardinality({ k \in 1..Len(bins) : RLe(bins[k], x) })

\* Lines 67-69: bar i adds its Volume at array position price_idx-1; the
\* position -1 (price_idx = 0) is Python's last position.  Positions are
\* numbered from 1 here.
profile_position(df, price_range, i) ==
    LET price_idx == digitize(df["Close"][i], price_range)
    IN  IF price_idx = 0 THEN Len(price_range) ELSE price_idx

calculate_volume_profile(df, price_bins) ==
    LET lo == RMin({ df["Low"][i] : i \in 1..Rows(df) })
        hi == RMax({ df["High"][i] : i \in 1..Rows(df) })
        price_range == linspace(lo, hi, price_bins)
        at(k) == { i \in 1..Rows(df) :
                     profile_position(df, price_range, i) = k }
        vol(k) == Column([i \in 1..Rows(df) |->
                            IF i \in at(k) THEN df["Volume"][i] ELSE R(0)])
    IN  [price_range    |-> price_range,
         volume_profile |-> Column([k \in 1..price_bins |-> sum(vol(k))])]

---------------------------------------------------------------------------
(* DataManager.get_gld_data (lines 75-104).                                *)

Timeframes == {"1d", "1w", "1m", "3m", "6m", "1y"}

\* Lines 77-84.
periods == [t \in Timeframes |->
              CASE t = "1d" -> "1d"  [] t = "1w" -> "5d"  [] t = "1m" -> "1mo"
                [] t = "3m" -> "3mo" [] t = "6m" -> "6mo" [] t = "1y" -> "1y"]

\* Lines 86-93.
intervals == [t \in Timeframes |->
                CASE t = "1d" -> "1m" [] t = "1w" -> "5m" [] t = "1m" -> "1h"
                  [] t = "3m" -> "1h" [] t = "6m" -> "1d" [] t = "1y" -> "1d"]

\* dict.get(key, default)
get(d, key, default) == IF key \in DOMAIN d THEN d[key] ELSE default

\* A plausible slip: no try/except around the provider call.
get_gld_data_unguarded(timeframe, outcome) ==
    [raised  |-> outcome.raises,
     request |-> <<get(periods, timeframe, "1d"),
                   get(intervals, timeframe, "1m")>>,
     shown   |-> <<>>,
     value   |-> outcome.frame]

\* get_gld_data(timeframe) where the provider call yf.Ticker("GLD")
\* .history(period, interval) ends as `outcome` says: it raises an
\* Exception (outcome.raises) or returns outcome.frame.  The result records
\* whether the function raised to its caller, the (period, interval) it
\* asked for, what it put on the page (st.error, with the error's text) and
\* the value returned.
get_gld_data(timeframe, outcome) ==
    [raised  |-> FALSE,
     request |-> <<get(periods, timeframe, "1d"),
                   get(intervals, timeframe, "1m")>>,
     shown   |-> IF outcome.raises
                 THEN << <<"Error fetching data", outcome.error>> >> ELSE <<>>,
     value   |-> IF outcome.raises THEN [c \in {} |-> <<>>] ELSE outcome.frame]

---------------------------------------------------------------------------
(* TechnicalAnalysis.calculate_all_indicators (lines 21-42).               *)

\* A column computed by the external library `ta` whose values no
\* operation modelled here reads: one uninterpreted entry per bar.
TaColumn(n) == [i \in 1..n |-> "ta"]

\* ta.trend.sma_indicator(close, window): close.rolling(window,
\* min_periods=window).mean(); bollinger_mavg is the same average.
calculate_all_indicators(df) ==
    LET n  == Rows(df)
        d1 == SetCol(SetCol(df, "SMA20", rolling_mean(df["Close"], 20)),
                     "SMA50", rolling_mean(df["Close"], 50))
        d2 == SetCol(SetCol(d1, "RSI", TaColumn(n)),
                     "BB_middle", rolling_mean(df["Close"], 20))
        d3 == SetCol(SetCol(d2, "BB_upper", TaColumn(n)),
                     "BB_lower", TaColumn(n))
        d4 == SetCol(SetCol(d3, "MACD", TaColumn(n)),
                     "MACD_signal", TaColumn(n))
    IN  SetCol(d4, "ATR", TaColumn(n))

---------------------------------------------------------------------------
(* ChartManager.create_advanced_chart (lines 147-270).                     *)

\* Line 4 is `import plotly.subplots as make_subplots`: the name
\* make_subplots is bound to the module plotly.subplots, not to the function
\* in it.  On a non-empty frame line 152 calls that module, which raises
\* TypeError ('module' object is not callable) before any trace is added;
\* lines 160-270 never run.  On an empty frame the function returns None.
create_advanced_chart(df, selected_indicators, chart_type) ==
    IF empty(df) THEN [raised |-> FALSE, value |-> "None"]
    ELSE [raised |-> TRUE, value |-> "TypeError"]

---------------------------------------------------------------------------
(* Dashboard.display_metrics (lines 330-354): what it puts on the page.    *)

display_metrics(df) ==
    IF empty(df) THEN <<>>
    ELSE LET n == Rows(df)
             current_price == df["Close"][n]
             period_high   == RMax({ df["High"][i] : i \in 1..n })
             period_low    == RMin({ df["Low"][i] : i \in 1..n })
             price_change  == RSub(df["Close"][n], df["Close"][1])
             price_change_pct ==
                 RMul(RDiv(price_change, df["Close"][1]), R(100))
         IN  << <<"Current Price", current_price, price_change,
                  price_change_pct>>,
                <<"Period High", period_high>>,
                <<"Period Low", period_low>> >>
             \o (IF "ATR" \in DOMAIN df THEN << <<"ATR", df["ATR"][n]>> >>
                 ELSE <<>>)

---------------------------------------------------------------------------
(* Dashboard.run, lines 399-405: the RSI marker.                           *)

\* "red" stands for the marker of line 402, "green" for that of line 403
\* and "white" for that of line 404.
rsi_color(rsi_value) ==
    IF RGt(rsi_value, R(70)) THEN "red"
    ELSE IF RLt(rsi_value, R(30)) THEN "green"
    ELSE "white"

---------------------------------------------------------------------------
(* The series the data provider can return.                                *)

MaxTail == 2

Bar(o, h, l, c, v) ==
    [Open |-> o, High |-> h, Low |-> l, Close |-> c, Volume |-> v]

\* Bars with Low <= Open, Close <= High, positive prices and Volume >= 0:
\* rising and falling bars of two sizes, a flat bar nobody traded, and a
\* falling bar that closes in the middle of the range.
BarSet == { Bar(1, 3, 1, 3, 1), Bar(1, 3, 1, 3, 2),
            Bar(3, 3, 1, 1, 1), Bar(3, 3, 1, 1, 2),
            Bar(2, 2, 2, 2, 0), Bar(3, 3, 2, 2, 1) }

RECURSIVE SeqsUpTo(_, _)
SeqsUpTo(S, n) ==
    IF n = 0 THEN { <<>> }
    ELSE LET shorter == SeqsUpTo(S, n - 1)
         IN  shorter \cup { Append(q, x) : q \in shorter, x \in S }

Repeat(x, k) == [i \in 1..k |-> x]

\* A series is a run of equal bars (long enough, or not, to fill the
\* 20-bar volume window) followed by up to MaxTail arbitrary bars.
Fillers == { Bar(1, 3, 1, 3, 1), Bar(3, 3, 1, 1, 2) }

InputSeries ==
    SeqsUpTo(BarSet, MaxTail)
    \cup { Repeat(f, k) \o t : f \in Fillers,
                               k \in {VOLUME_MA_WINDOW - 1, VOLUME_MA_WINDOW},
                               t \in SeqsUpTo(BarSet, MaxTail) }

OHLCV == {"Open", "High", "Low", "Close", "Volume"}

\* The frame of a series: one column per raw field.
Frame(bars) == [c \in OHLCV |-> [i \in 1..Len(bars) |-> R(bars[i][c])]]

\* pd.DataFrame(): no columns, no rows.
NoFrame == [c \in {} |-> <<>>]

\* Series for the level finder and the volume profile: short, with highs
\* that rise, fall and tie.
MaxLevelLen == 3
MaxWindow == 3
MaxBins == 3

LevelBars == { Bar(1, 2, 1, 2, 1), Bar(2, 3, 1, 3, 2),
               Bar(3, 4, 2, 2, 1), Bar(2, 3, 2, 2, 0) }

LevelSeries == SeqsUpTo(LevelBars, MaxLevelLen) \ { <<>> }

\* What the provider call of get_gld_data can end as: an Exception, or a
\* series (possibly one without rows).
Errors == {"ConnectionError", "ValueError", "KeyError"}

FetchedSeries ==
    SeqsUpTo(BarSet, 1)
    \cup { Repeat(f, VOLUME_MA_WINDOW) \o t : f \in Fillers,
                                              t \in SeqsUpTo(BarSet, 1) }

ProviderOutcomes ==
    { [raises |-> TRUE, error |-> e, frame |-> NoFrame] : e \in Errors }
    \cup { [raises |-> FALSE, error |-> "none", frame |-> Frame(b)] :
             b \in FetchedSeries }

\* The latest RSI: undefined, or any whole number of the scale.
RsiValues == { NaN } \cup { R(k) : k \in 0..100 }

\* The sidebar's choices (lines 292-316).
IndicatorChoices == { {"Moving Averages", "RSI"}, {"Bollinger Bands", "MACD"} }
ChartTypes == {"Candlestick", "Line"}

---------------------------------------------------------------------------
(* Direct calls of the static methods: the arguments are drawn at the      *)
(* start, the call is one step.                                            *)

NotRun == pc = "off" /\ data = NoFrame /\ applied = {} /\ output = <<>>

InitCalls ==
    /\ NotRun
    /\ called = FALSE
    /\ ret = <<>>
    /\ \/ /\ fn = "calculate_buy_sell_volume"
          /\ arg \in { Frame(b) : b \in InputSeries } \cup { NoFrame }
       \/ /\ fn = "find_support_resistance"
          /\ arg \in [df : { Frame(b) : b \in LevelSeries },
                       window : 1..MaxWindow,
                       scipy_available : BOOLEAN]
       \/ /\ fn = "calculate_volume_profile"
          /\ arg \in [df : { Frame(b) : b \in LevelSeries },
                       price_bins : 1..MaxBins]
       \/ /\ fn = "get_gld_data"
          /\ arg \in [timeframe : Timeframes \cup {"2y"},
                       outcome : ProviderOutcomes]
       \/ /\ fn = "rsi_color"
          /\ arg \in RsiValues

Call_calculate_buy_sell_volume ==
    /\ fn = "calculate_buy_sell_volume" /\ ~called
    /\ called' = TRUE
    /\ ret' = calculate_buy_sell_volume(arg)
    /\ UNCHANGED <<pc, data, applied, output, fn, arg>>

Call_find_support_resistance ==
    /\ fn = "find_support_resistance" /\ ~called
    /\ called' = TRUE
    /\ ret' = find_support_resistance(arg.df, arg.window,
                                      arg.scipy_available)
    /\ UNCHANGED <<pc, data, applied, output, fn, arg>>

Call_calculate_volume_profile ==
    /\ fn = "calculate_volume_profile" /\ ~called
    /\ called' = TRUE
    /\ ret' = calculate_volume_profile(arg.df, arg.price_bins)
    /\ UNCHANGED <<pc, data, applied, output, fn, arg>>

Call_get_gld_data ==
    /\ fn = "get_gld_data" /\ ~called
    /\ called' = TRUE
    /\ ret' = get_gld_data(arg.timeframe, arg.outcome)
    /\ UNCHANGED <<pc, data, applied, output, fn, arg>>

Call_rsi_color ==
    /\ fn = "rsi_color" /\ ~called
    /\ called' = TRUE
    /\ ret' = rsi_color(arg)
    /\ UNCHANGED <<pc, data, applied, output, fn, arg>>

NextCalls ==
    \/ Call_calculate_buy_sell_volume
    \/ Call_find_support_resistance
    \/ Call_calculate_volume_profile
    \/ Call_get_gld_data
    \/ Call_rsi_color

SpecCalls == InitCalls /\ [][NextCalls]_vars

---------------------------------------------------------------------------
(* Dashboard.run (lines 356-378): the refresh loop, one step per           *)
(* statement.  `applied` records each pipeline stage run in the cycle and  *)
(* whether the frame it was given was empty.                               *)

\* A plausible slip: the cycle goes on whatever the fetch returned.
run_guard_always(df) == TRUE

\* Line 362: if not data.empty
run_guard(df) == ~empty(df)

Stage(name) == [stage |-> name, on_empty |-> empty(data)]

Init ==
    /\ pc = "fetch"
    /\ data = NoFrame
    /\ applied = {}
    /\ output = <<>>
    /\ fn = "run"
    /\ arg \in [timeframe : Timeframes,
                 selected_indicators : IndicatorChoices,
                 chart_type : ChartTypes]
    /\ called = FALSE
    /\ ret = <<>>

\* Line 361: data = DataManager.get_gld_data(self.timeframe)
RunFetch ==
    /\ pc = "fetch"
    /\ \E outcome \in ProviderOutcomes :
          LET r == get_gld_data(arg.timeframe, outcome)
          IN  /\ data' = r.value
              /\ output' = r.shown
    /\ applied' = {}
    /\ pc' = "guard"
    /\ UNCHANGED <<fn, arg, called, ret>>

\* Line 362: an empty frame skips the body of the if, to the end of the
\* cycle.
RunGuard ==
    /\ pc = "guard"
    /\ pc' = IF run_guard(data) THEN "indicators" ELSE "sleep"
    /\ UNCHANGED <<data, applied, output, fn, arg, called, ret>>

\* Line 364
RunIndicators ==
    /\ pc = "indicators"
    /\ data' = calculate_all_indicators(data)
    /\ applied' = applied \cup { Stage("calculate_all_indicators") }
    /\ pc' = "volume"
    /\ UNCHANGED <<output, fn, arg, called, ret>>

\* Line 365
RunVolume ==
    /\ pc = "volume"
    /\ data' = calculate_buy_sell_volume(data)
    /\ applied' = applied \cup { Stage("calculate_buy_sell_volume") }
    /\ pc' = "metrics"
    /\ UNCHANGED <<output, fn, arg, called, ret>>

\* Line 369
RunMetrics ==
    /\ pc = "metrics"
    /\ output' = output \o display_metrics(data)
    /\ applied' = applied \cup { Stage("display_metrics") }
    /\ pc' = "chart"
    /\ UNCHANGED <<data, fn, arg, called, ret>>

\* Lines 372-378.  The frame is not empty here, so create_advanced_chart
\* raises and control leaves the try block: lines 380-405 (the support and
\* resistance levels and the RSI marker) are not reached by the loop.
RunChart ==
    /\ pc = "chart"
    /\ LET chart == create_advanced_chart(data, arg.selected_indicators,
                                          arg.chart_type)
       IN  /\ pc' = IF chart.raised THEN "except" ELSE "sleep"
           /\ output' = IF ~chart.raised /\ chart.value # "None"
                         THEN Append(output, <<"plotly_chart">>) ELSE output
    /\ applied' = applied \cup { Stage("create_advanced_chart") }
    /\ UNCHANGED <<data, fn, arg, called, ret>>

\* The handler of the try block of line 359: the error is reported and the
\* cycle ends.
RunExcept ==
    /\ pc = "except"
    /\ output' = Append(output, <<"error">>)
    /\ pc' = "sleep"
    /\ UNCHANGED <<data, applied, fn, arg, called, ret>>

\* The end of a cycle: the loop sleeps and starts the next cycle.
RunSleep ==
    /\ pc = "sleep"
    /\ pc' = "fetch"
    /\ UNCHANGED <<data, applied, output, fn, arg, called, ret>>

Next ==
    \/ RunFetch
    \/ RunGuard
    \/ RunIndicators
    \/ RunVolume
    \/ RunMetrics
    \/ RunChart
    \/ RunExcept
    \/ RunSleep

Spec == Init /\ [][Next]_vars

---------------------------------------------------------------------------
(* Claims about calculate_buy_sell_volume.                                 *)

VolumeCalled == called /\ fn = "calculate_buy_sell_volume" /\ ~empty(arg)

\* The series cut after bar i.
Truncate(df, i) == [c \in DOMAIN df |-> SubSeq(df[c], 1, i)]

\* Bar i meets the predominant-buy (-sell) condition of the frame d.
PredominantBuy(d, i) ==
    RGt(d["Close"][i], d["VWAP"][i]) /\ RGt(d["Close"][i], d["Open"][i])
PredominantSell(d, i) ==
    RLt(d["Close"][i], d["VWAP"][i]) /\ RLt(d["Close"][i], d["Open"][i])

\* C1: after calculate_buy_sell_volume on a non-empty series with volumes
\* >= 0, sum(Buy_Volume) + sum(Sell_Volume) = sum(Volume) whenever the total
\* of the two columns before renormalization is nonzero (NaN entries are
\* skipped by the sums).
C1_RenormalizedTotal ==
    (VolumeCalled /\ total_calculated(split_volume(arg)) # R(0))
        => RAdd(sum(ret["Buy_Volume"]), sum(ret["Sell_Volume"]))
               = sum(ret["Volume"])

\* C1's case: the renormalization had something to do (the split total
\* differs from the volume total), with an undefined entry among the values.
C1_Witness ==
    /\ VolumeCalled
    /\ LET d == split_volume(arg)
       IN  /\ total_calculated(d) # R(0)
           /\ total_calculated(d) # sum(d["Volume"])
           /\ \E i \in 1..Rows(d) : IsNaN(d["Buy_Volume"][i])
           /\ \E i \in 1..Rows(d) :
                 PredominantBuy(d, i) /\ ~IsNaN(d["Buy_Volume"][i])

\* C2 as stated: before renormalization, Buy_Volume[i] + Sell_Volume[i] =
\* Volume[i] for every bar (read here only over the bars where both shares
\* are defined), the other side receiving the complement.
C2_Complement ==
    VolumeCalled =>
        LET d == split_volume(arg)
        IN  \A i \in 1..Rows(d) :
              (~IsNaN(d["Buy_Volume"][i]) /\ ~IsNaN(d["Sell_Volume"][i]))
                 => RAdd(d["Buy_Volume"][i], d["Sell_Volume"][i])
                        = d["Volume"][i]

\* C2 amended: before renormalization the side that is not assigned the
\* predominant share receives Volume * 0.5, not the complement.  A
\* predominant-buy bar has Buy = Volume * Relative_Volume and Sell =
\* Volume * 0.5, symmetrically for a predominant-sell bar; a bar meeting
\* neither condition has Buy = Sell = Volume * 0.5, so there, and only
\* there in general, Buy + Sell = Volume.
C2_HalfToOtherSide ==
    VolumeCalled =>
        LET d == split_volume(arg)
            v(i)   == d["Volume"][i]
            rel(i) == RMul(v(i), RDiv(v(i), d["Volume_MA"][i]))
        IN  \A i \in 1..Rows(d) :
              /\ PredominantBuy(d, i) =>
                    /\ d["Buy_Volume"][i] = rel(i)
                    /\ d["Sell_Volume"][i] = RMul(v(i), Half)
              /\ PredominantSell(d, i) =>
                    /\ d["Sell_Volume"][i] = rel(i)
                    /\ d["Buy_Volume"][i] = RMul(v(i), Half)
              /\ (~PredominantBuy(d, i) /\ ~PredominantSell(d, i)) =>
                    /\ d["Buy_Volume"][i] = RMul(v(i), Half)
                    /\ d["Sell_Volume"][i] = RMul(v(i), Half)
                    /\ RAdd(d["Buy_Volume"][i], d["Sell_Volume"][i]) = v(i)

\* C2's case: a predominant-buy bar and a predominant-sell bar, each with a
\* defined Relative_Volume, and a bar meeting neither condition.
C2_Witness ==
    /\ VolumeCalled
    /\ LET d == split_volume(arg)
       IN  /\ \E i \in 1..Rows(d) :
                 PredominantBuy(d, i) /\ ~IsNaN(d["Relative_Volume"][i])
           /\ \E i \in 1..Rows(d) :
                 PredominantSell(d, i) /\ ~IsNaN(d["Relative_Volume"][i])
           /\ \E i \in 1..Rows(d) :
                 ~PredominantBuy(d, i) /\ ~PredominantSell(d, i)

DerivedFields == {"Typical_Price", "VP", "VWAP", "Price_Change", "Volume_MA",
                  "Relative_Volume", "Buy_Volume", "Sell_Volume"}

\* Frames a and b agree at index i on the fields cs.
SameAt(a, b, cs, i) == \A c \in cs : a[c][i] = b[c][i]

\* The frame with every column built.
Materialize(df) == [c \in DOMAIN df |-> df[c] \o <<>>]

SplitHasNoLookahead(final, split, raw) ==
    \A i \in 1..Rows(raw) :
        /\ SameAt(final, split_volume(Truncate(raw, i)),
                  DerivedFields \ {"Buy_Volume", "Sell_Volume"}, i)
        /\ SameAt(split, split_volume(Truncate(raw, i)),
                  {"Buy_Volume", "Sell_Volume"}, i)

\* C3 as stated: every derived field, the renormalized Buy_Volume and
\* Sell_Volume included, has at index i the value it has on the series
\* truncated after bar i.
C3_NoLookahead ==
    VolumeCalled =>
        \A i \in 1..Rows(arg) :
            SameAt(ret, calculate_buy_sell_volume(Truncate(arg, i)),
                   DerivedFields, i)

\* C3 amended: every derived field other than the final (renormalized)
\* Buy_Volume and Sell_Volume has no lookahead, and neither has the per-bar
\* split before renormalization; the final Buy_Volume and Sell_Volume are
\* that split scaled by a factor computed from the whole series.
C3_NoLookaheadBeforeRenormalization ==
    VolumeCalled =>
        /\ \A c \in DerivedFields : c \in DOMAIN ret /\ Len(ret[c]) = Rows(arg)
        /\ SplitHasNoLookahead(ret, Materialize(split_volume(arg)), arg)

\* C3's case: a series long enough for a defined Relative_Volume, whose
\* final Buy_Volume at some bar differs from the one of the truncated series.
C3_Witness ==
    /\ VolumeCalled
    /\ \E i \in 1..Rows(arg) :
          /\ i >= VOLUME_MA_WINDOW
          /\ ~IsNaN(ret["Relative_Volume"][i])
          /\ ret["Buy_Volume"][i]
                # calculate_buy_sell_volume(Truncate(arg, i))["Buy_Volume"][i]

\* C4: VWAP[i] is the sum over bars 0..i of (High+Low+Close)/3 * Volume over
\* the sum over bars 0..i of Volume, and is unchanged at index i when the
\* series is truncated after bar i.
C4_RunningVwap ==
    VolumeCalled =>
        \A i \in 1..Rows(arg) :
            LET tp(j) == RDiv(RAdd(RAdd(arg["High"][j], arg["Low"][j]),
                                   arg["Close"][j]), R(3))
                pv(j) == RMul(tp(j), arg["Volume"][j])
                num == SumRange([j \in 1..i |-> pv(j)], 1, i)
                den == SumRange(arg["Volume"], 1, i)
            IN  /\ ret["VWAP"][i] = RDiv(num, den)
                /\ SameAt(ret, calculate_buy_sell_volume(Truncate(arg, i)),
                          {"VWAP"}, i)

\* C4's case: a series of several bars with different typical prices and a
\* defined VWAP that moves along the series.
C4_Witness ==
    /\ VolumeCalled
    /\ Rows(arg) >= 3
    /\ \E i, j \in 1..Rows(arg) :
          /\ i < j
          /\ ~IsNaN(ret["VWAP"][i]) /\ ~IsNaN(ret["VWAP"][j])
          /\ ret["VWAP"][i] # ret["VWAP"][j]

---------------------------------------------------------------------------
(* Claims about get_gld_data and the refresh loop.                         *)

\* C5: get_gld_data never raises to its caller; when the provider call
\* raises an error it returns an empty series, for every timeframe, one
\* that is no key of the tables included (it asks for period 1d, interval
\* 1m).
C5_FetchNeverRaises ==
    (called /\ fn = "get_gld_data") =>
        /\ ~ret.raised
        /\ arg.outcome.raises => empty(ret.value)
        /\ ~arg.outcome.raises => ret.value = arg.outcome.frame
        /\ arg.timeframe \notin Timeframes => ret.request = <<"1d", "1m">>
        /\ arg.timeframe \in Timeframes =>
              ret.request = <<periods[arg.timeframe], intervals[arg.timeframe]>>

\* C5's case: the provider raised, for a timeframe outside the tables.
C5_Witness ==
    /\ called /\ fn = "get_gld_data"
    /\ arg.outcome.raises
    /\ arg.timeframe \notin Timeframes
    /\ empty(ret.value) /\ ~ret.raised

PipelineStages == {"calculate_all_indicators", "calculate_buy_sell_volume",
                   "display_metrics", "create_advanced_chart"}

\* C6: in a refresh cycle whose fetch returned an empty series no stage of
\* the pipeline (indicators, volume classification, levels, chart) is
\* applied to it and the cycle goes straight to its end; and
\* calculate_buy_sell_volume, create_advanced_chart and display_metrics
\* called on that empty series return without adding columns or output.
C6_EmptyShortCircuits ==
    /\ \A a \in applied : ~a.on_empty
    /\ (fn = "run" /\ empty(data)) =>
          /\ pc \in {"fetch", "guard", "sleep"}
          /\ applied = {}
          /\ \A k \in 1..Len(output) : output[k][1] = "Error fetching data"
          /\ DOMAIN calculate_buy_sell_volume(data) = DOMAIN data
          /\ create_advanced_chart(data, arg.selected_indicators,
                                   arg.chart_type)
                = [raised |-> FALSE, value |-> "None"]
          /\ display_metrics(data) = <<>>

\* C6's case: a cycle whose fetch failed has reached its end.
C6_Witness ==
    /\ fn = "run" /\ pc = "sleep"
    /\ empty(data)
    /\ Len(output) = 1 /\ output[1][1] = "Error fetching data"

---------------------------------------------------------------------------
(* Claims about find_support_resistance.                                   *)

FallbackCalled ==
    called /\ fn = "find_support_resistance" /\ ~arg.scipy_available

ExtremaCalled ==
    called /\ fn = "find_support_resistance" /\ arg.scipy_available

\* v is the largest (smallest) of s[lo..hi].
IsMaxOf(v, s, lo, hi) ==
    (\E j \in lo..hi : v = s[j]) /\ (\A j \in lo..hi : RGe(v, s[j]))
IsMinOf(v, s, lo, hi) ==
    (\E j \in lo..hi : v = s[j]) /\ (\A j \in lo..hi : RLe(v, s[j]))

\* C7 as stated: the fallback gives every bar, the early ones included, a
\* defined resistance max(high[i-window+1..i]) and a defined support
\* min(low[i-window+1..i]) (the window cut at the start of the series).
C7_FallbackAlwaysDefined ==
    FallbackCalled =>
        \A i \in 1..Rows(arg.df) :
            LET lo == IF i < arg.window THEN 1 ELSE i - arg.window + 1
            IN  /\ ~IsNaN(ret.resistance[i]) /\ ~IsNaN(ret.support[i])
                /\ IsMaxOf(ret.resistance[i], arg.df["High"], lo, i)
                /\ IsMinOf(ret.support[i], arg.df["Low"], lo, i)

\* C7 amended: the fallback returns one resistance and one support entry per
\* bar; for every bar with (0-based) index i >= window-1 they are
\* max(high[i-window+1..i]) and min(low[i-window+1..i]); for the bars with
\* index < window-1 (every bar of a series shorter than window) both are
\* undefined.
C7_FallbackDefinedFromWindow ==
    FallbackCalled =>
        /\ DOMAIN ret.resistance = 1..Rows(arg.df)
        /\ DOMAIN ret.support = 1..Rows(arg.df)
        /\ \A i \in 1..Rows(arg.df) :
              IF i >= arg.window
              THEN /\ IsMaxOf(ret.resistance[i], arg.df["High"],
                              i - arg.window + 1, i)
                   /\ IsMinOf(ret.support[i], arg.df["Low"],
                              i - arg.window + 1, i)
              ELSE IsNaN(ret.resistance[i]) /\ IsNaN(ret.support[i])

\* C7's case: a window of several bars over a series with early bars
\* (undefined) and later bars whose level is not the bar's own high.
C7_Witness ==
    /\ FallbackCalled
    /\ arg.window >= 2
    /\ \E i \in 1..Rows(arg.df) : i < arg.window /\ IsNaN(ret.resistance[i])
    /\ \E i \in 1..Rows(arg.df) :
          /\ i >= arg.window
          /\ ret.resistance[i] # arg.df["High"][i]
          /\ ret.support[i] # arg.df["Low"][i]

\* The bars within window bars of bar i, bar i excluded.
Around(i, n, window) ==
    { j \in 1..n : j # i /\ j - i <= window /\ i - j <= window }

StrictlyIncreasing(s) == \A i \in 1..(Len(s) - 1) : RLt(s[i], s[i + 1])

\* C8: with extrema detection, bar i is a resistance level exactly when no
\* other bar within window bars of i has a strictly greater high (so every
\* bar of a plateau of tied highs is one), and a support level likewise for
\* low; for strictly increasing highs the only resistance level is the last
\* bar.
C8_ExtremaLevels ==
    ExtremaCalled =>
        LET n    == Rows(arg.df)
            high == arg.df["High"]
            low  == arg.df["Low"]
        IN  /\ DOMAIN ret.resistance =
                  { i \in 1..n : ~\E j \in Around(i, n, arg.window) :
                                      RGt(high[j], high[i]) }
            /\ DOMAIN ret.support =
                  { i \in 1..n : ~\E j \in Around(i, n, arg.window) :
                                      RLt(low[j], low[i]) }
            /\ \A i \in DOMAIN ret.resistance : ret.resistance[i] = high[i]
            /\ \A i \in DOMAIN ret.support : ret.support[i] = low[i]
            /\ StrictlyIncreasing(high) => DOMAIN ret.resistance = {n}

\* C8's case: a plateau of two tied highs, both marked, next to a bar that
\* is not marked.
C8_Witness ==
    /\ ExtremaCalled
    /\ \E i, j \in DOMAIN ret.resistance :
          i # j /\ j \in Around(i, Rows(arg.df), arg.window)
               /\ arg.df["High"][i] = arg.df["High"][j]
    /\ \E i \in 1..Rows(arg.df) : i \notin DOMAIN ret.resistance

---------------------------------------------------------------------------
(* Claims about calculate_volume_profile and the RSI marker.               *)

\* The bucket (numbered from 1) of price c when [lo, hi] is cut into bins
\* buckets of equal width (hi - lo) / bins, the last one closed.
BucketOf(c, lo, hi, bins) ==
    IF c = hi THEN bins
    ELSE CHOOSE k \in 1..bins :
           LET w == RDiv(RSub(hi, lo), R(bins))
           IN  /\ RLe(RAdd(lo, RMul(R(k - 1), w)), c)
               /\ RLt(c, RAdd(lo, RMul(R(k), w)))

\* C9: calculate_volume_profile cuts [min(Low), max(High)] into price_bins
\* buckets of width (max(High) - min(Low)) / price_bins and adds each bar's
\* Volume to the bucket that contains its Close; the array has price_bins
\* entries and sums to the total volume.  (Series with max(High) > min(Low).)
C9_EqualWidthBuckets ==
    (called /\ fn = "calculate_volume_profile") =>
        LET df == arg.df
            n  == Rows(df)
            lo == RMin({ df["Low"][i] : i \in 1..n })
            hi == RMax({ df["High"][i] : i \in 1..n })
            in(k) == [i \in 1..n |->
                        IF BucketOf(df["Close"][i], lo, hi, arg.price_bins) = k
                        THEN df["Volume"][i] ELSE R(0)]
        IN  /\ Len(ret.volume_profile) = arg.price_bins
            /\ sum(ret.volume_profile) = sum(df["Volume"])
            /\ RLt(lo, hi) =>
                  \A k \in 1..arg.price_bins :
                      ret.volume_profile[k] = sum(in(k))

\* C10: an undefined latest RSI is reported as undefined, not as the
\* neutral marker; the overbought marker is produced exactly when
\* RSI > 70 and the oversold marker exactly when RSI < 30.
C10_UndefinedRsiReported ==
    (called /\ fn = "rsi_color") =>
        /\ IsNaN(arg) => ret \notin {"red", "green", "white"}
        /\ ret = "red" <=> RGt(arg, R(70))
        /\ ret = "green" <=> RLt(arg, R(30))

====
